---- MODULE Spec2Model ----
(***************************************************************************)
(* TUK-ConvoSearch: the retrieval-augmented query pipeline                 *)
(* (app/core/rag_pipeline.py) and the conversation history store           *)
(* (app/core/database.py).                                                 *)
(*                                                                         *)
(* Numbers.  Similarity scores are Python floats; the model keeps them as  *)
(* integers counted in 1/Scale (thousandths), so 0.7 is 700.  A confidence *)
(* is the exact rational [num, den] in the same unit, because the mean of  *)
(* the filtered scores is in general not a whole number of thousandths.    *)
(*                                                                         *)
(* Exceptions.  A Python call either returns or raises.  Every operator    *)
(* that models a method returns a record with a field exc: NoExc when the  *)
(* method returned, else the name of the exception that left the method.   *)
(***************************************************************************)
EXTENDS Integers, Sequences, FiniteSets, TLC

VARIABLES
    pipeline,   \* the constructed RAGPipeline: db_manager given?, config.ENABLE_HISTORY
    store,      \* rows of the conversations table, in insertion order
    next_id,    \* next value of the autoincrement primary key
    clock,      \* datetime.utcnow(), in days
    calls,      \* number of process_query invocations made so far
    outcome,    \* how the last process_query invocation ended
    call,       \* arguments and collaborator outcomes of the last invocation
    ret,        \* <<QueryResult>> of the last invocation, <<>> before the first
    wrote,      \* rows the last invocation added to the store
    gen_calls,  \* generate_response calls made by the last invocation
    supplied,   \* conversation ids callers have passed to process_query so far
    op,         \* the last operation: name, arguments, exception, return value
    index,      \* entries of the chroma collection, in insertion order
    proc        \* each concurrent process_query invocation: position and locals

vars == <<pipeline, store, next_id, clock, calls, outcome, call, ret, wrote,
          gen_calls, supplied, op, index, proc>>

-----------------------------------------------------------------------------
(* Bounds of the model *)

MaxDocs == 2
MaxCalls == 2
MaxClock == 31
MaxBatch == 2

(* Program constants *)

Scale == 1000
SIMILARITY_THRESHOLD == 700
HISTORY_RETENTION_DAYS == 30
TOP_K_RESULTS == 4

-----------------------------------------------------------------------------
(* Values *)

None == "None"
NoExc == "NoExc"

Scores == {500, 700, 817}
Queries == {"fees"}
ConversationIds == {"c1", "c2"}
QueryConversationIds == {"c1"}
UserIds == {"anonymous", "u1"}
Thresholds == {500, 700, 817, 900}

MissingKey == "<no source key>"
SourceOf(s) == IF s = 500 THEN MissingKey ELSE "fees.pdf"

\* The stored text of the passage at similarity s.
ContentOf(s) ==
    CASE s = 817 -> "fees are paid per semester"
      [] s = 700 -> "a fee balance blocks registration"
      [] s = 500 -> "hostel rooms are allocated in May"
      [] OTHER -> "passage"

\* One RetrievedCandidate as search() formats it.
Candidate(s) ==
    [content |-> ContentOf(s), metadata |-> [source |-> SourceOf(s)],
     similarity_score |-> s]

RECURSIVE SeqsUpTo(_, _)
SeqsUpTo(S, n) ==
    IF n = 0 THEN {<<>>}
    ELSE LET shorter == SeqsUpTo(S, n - 1)
         IN  shorter \cup {Append(q, x) : q \in {r \in shorter : Len(r) = n - 1}, x \in S}

NonIncreasing(ss) ==
    \A i \in 1..(Len(ss) - 1) : ss[i] >= ss[i + 1]

\* What search() can return: at most MaxDocs candidates, nearest first.
ScoreLists == {ss \in SeqsUpTo(Scores, MaxDocs) : NonIncreasing(ss)}
DocLists == {[i \in 1..Len(ss) |-> Candidate(ss[i])] : ss \in ScoreLists}

Faults == {"none", "open", "build", "insert", "commit"}

ANSWER_NO_EVIDENCE == "I couldn't find relevant information"
ANSWER_LOW_CONFIDENCE == "doesn't meet the confidence threshold"
ANSWER_PIPELINE_ERROR == "An error occurred"
ANSWER_LLM == "Fee is 70,000"
ANSWER_LLM_APOLOGY == "I apologize"

NAME_ERROR == "name 'datetime' is not defined"
UNBOUND_LOCAL_ERROR == "local variable 'db' referenced before assignment"
LLM_ERROR == "llm call failed"

-----------------------------------------------------------------------------
(* Arithmetic on confidences *)

Rat(n, d) == [num |-> n, den |-> d]

\* int(x) of Python for x = a / b, b > 0: truncation toward zero.
Trunc(a, b) == IF a >= 0 THEN a \div b ELSE -((-a) \div b)

\* int(confidence * 100), rag_pipeline.py line 88.
ConfidencePercent(c) == Trunc(c.num * 100, c.den * Scale)

RECURSIVE SumScores(_)
SumScores(docs) ==
    IF docs = <<>> THEN 0
    ELSE Head(docs).similarity_score + SumScores(Tail(docs))

\* max([doc["similarity_score"] for doc in retrieved_docs]), for a non-empty list.
MaxScore(docs) ==
    CHOOSE m \in {docs[i].similarity_score : i \in 1..Len(docs)} :
        \A i \in 1..Len(docs) : docs[i].similarity_score <= m

-----------------------------------------------------------------------------
(* RAGPipeline.process_query, the threshold gate *)

filtered_docs_strict(docs, tau) ==
    SelectSeq(docs, LAMBDA d : d.similarity_score > tau)

\* The same expression keeping every candidate.
filtered_docs_unfiltered(docs, tau) == docs

filtered_docs(docs, tau) ==
    SelectSeq(docs, LAMBDA d : d.similarity_score >= tau)

\* doc['metadata'].get('source', 'Unknown')
SourceName(doc) ==
    IF doc.metadata.source = MissingKey THEN "Unknown" ELSE doc.metadata.source

\* The context string is kept as the sequence of its pieces: a block
\* [number, source, content] for f"Document {i+1} [Source: <source>]:\n<content>\n"
\* and DELIMITER for "\n---\n".  The string is empty exactly when the sequence is.
DELIMITER == [delimiter |-> "\n---\n"]

\* sep.join(parts)
RECURSIVE Join(_, _)
Join(parts, sep) ==
    IF parts = <<>> THEN <<>>
    ELSE IF Len(parts) = 1 THEN <<parts[1]>>
    ELSE <<parts[1], sep>> \o Join(Tail(parts), sep)

\* The same method numbering the blocks as enumerate() does, from 0.
_prepare_context_from_zero(documents) ==
    Join([i \in 1..Len(documents) |->
             [number |-> i - 1, source |-> SourceName(documents[i]),
              content |-> documents[i].content]], DELIMITER)

_prepare_context(documents) ==
    LET context_parts ==
            [i \in 1..Len(documents) |->
                [number |-> i, source |-> SourceName(documents[i]),
                 content |-> documents[i].content]]
    IN  Join(context_parts, DELIMITER)

\* The same method reporting sources_used from the context on both paths.
generate_response_context_only(question, context, llm_ok) ==
    IF llm_ok
    THEN [answer |-> ANSWER_LLM, sources_used |-> (context # <<>>), error |-> None]
    ELSE [answer |-> ANSWER_LLM_APOLOGY, sources_used |-> (context # <<>>),
          error |-> LLM_ERROR]

\* LLMManager.generate_response; llm_ok is whether chain.run returned.
generate_response(question, context, llm_ok) ==
    IF llm_ok
    THEN [answer |-> ANSWER_LLM, sources_used |-> (context # <<>>), error |-> None]
    ELSE [answer |-> ANSWER_LLM_APOLOGY, sources_used |-> FALSE, error |-> LLM_ERROR]

NoEvidenceResult ==
    [answer |-> ANSWER_NO_EVIDENCE, sources |-> <<>>, confidence |-> Rat(0, 1),
     error |-> None]

\* The same result without the unfiltered candidates.
LowConfidenceResult_no_sources(retrieved_docs) ==
    [answer |-> ANSWER_LOW_CONFIDENCE, sources |-> <<>>,
     confidence |-> Rat(MaxScore(retrieved_docs), 1), error |-> None]

LowConfidenceResult(retrieved_docs) ==
    [answer |-> ANSWER_LOW_CONFIDENCE, sources |-> retrieved_docs,
     confidence |-> Rat(MaxScore(retrieved_docs), 1), error |-> None]

\* The same result with only the four fields of the other results.
AnsweredResult_four_fields(llm_response, filtered, conversation_id) ==
    [answer |-> llm_response.answer, sources |-> filtered,
     confidence |-> Rat(SumScores(filtered), Len(filtered)),
     error |-> llm_response.error]

AnsweredResult(llm_response, filtered, conversation_id) ==
    [answer |-> llm_response.answer, sources |-> filtered,
     confidence |-> Rat(SumScores(filtered), Len(filtered)),
     sources_used |-> llm_response.sources_used, error |-> llm_response.error,
     conversation_id |-> conversation_id]

PipelineErrorResult(e) ==
    [answer |-> ANSWER_PIPELINE_ERROR, sources |-> <<>>, confidence |-> Rat(0, 1),
     error |-> e]

-----------------------------------------------------------------------------
(* DatabaseManager *)

\* DatabaseManager.__init__: the session factory exists iff history is enabled.
SessionLocal(p) == p.ENABLE_HISTORY

\* json.dumps of the source list: the column holds the encoded text, not the list.
json_dumps(value) == [json_text |-> value]
json_loads(text) == text.json_text

HasConversation(rows, conversation_id) ==
    \E i \in 1..Len(rows) : rows[i].conversation_id = conversation_id

\* The row that db.add / db.commit inserts.
Conversation(conversation_data, id, now) ==
    [id |-> id,
     conversation_id |-> conversation_data.conversation_id,
     user_id |-> conversation_data.user_id,
     query |-> conversation_data.query,
     answer |-> conversation_data.answer,
     confidence |-> conversation_data.confidence,
     sources_used |-> json_dumps(conversation_data.sources_used),
     created_at |-> now,
     helpful_feedback |-> None]

SaveFailed(db, e) ==
    [exc |-> e, rows |-> db.rows, next_id |-> db.next_id, success |-> FALSE]

\* The same method without the unique index on conversation_id.
save_conversation_no_unique(db, conversation_data, fault, now) ==
    IF ~db.SessionLocal THEN SaveFailed(db, NoExc)
    ELSE IF fault = "open" THEN SaveFailed(db, UNBOUND_LOCAL_ERROR)
    ELSE IF fault \in {"build", "insert", "commit"} THEN SaveFailed(db, NoExc)
    ELSE [exc |-> NoExc,
          rows |-> Append(db.rows, Conversation(conversation_data, db.next_id, now)),
          next_id |-> db.next_id + 1, success |-> TRUE]

\* The same method with a finally block that raises after the commit.
save_conversation_finally_raises(db, conversation_data, fault, now) ==
    IF ~db.SessionLocal THEN SaveFailed(db, NoExc)
    ELSE IF fault = "open" THEN SaveFailed(db, UNBOUND_LOCAL_ERROR)
    ELSE IF fault \in {"build", "insert", "commit"} THEN SaveFailed(db, NoExc)
    ELSE IF HasConversation(db.rows, conversation_data.conversation_id)
         THEN SaveFailed(db, NoExc)
    ELSE [exc |-> UNBOUND_LOCAL_ERROR,
          rows |-> Append(db.rows, Conversation(conversation_data, db.next_id, now)),
          next_id |-> db.next_id + 1, success |-> TRUE]

\* DatabaseManager.save_conversation.  fault is what the session does:
\*   "open"   SessionLocal() raises: the handler returns, but the finally block
\*            reads the unassigned local db and UnboundLocalError leaves the method;
\*   "build"  Conversation(...) / json.dumps raises: caught, failure returned;
\*   "insert" db.add raises: caught, failure returned;
\*   "commit" db.commit raises: caught, failure returned;
\*   "none"   the session works; the commit still raises IntegrityError when the
\*            conversation_id is already stored (unique index), which is caught.
\* db.close() after a session was opened is taken not to raise.
save_conversation(db, conversation_data, fault, now) ==
    IF ~db.SessionLocal THEN SaveFailed(db, NoExc)
    ELSE IF fault = "open" THEN SaveFailed(db, UNBOUND_LOCAL_ERROR)
    ELSE IF fault \in {"build", "insert", "commit"} THEN SaveFailed(db, NoExc)
    ELSE IF HasConversation(db.rows, conversation_data.conversation_id)
         THEN SaveFailed(db, NoExc)
    ELSE [exc |-> NoExc,
          rows |-> Append(db.rows, Conversation(conversation_data, db.next_id, now)),
          next_id |-> db.next_id + 1, success |-> TRUE]

-----------------------------------------------------------------------------
(* RAGPipeline._save_to_history *)

Truthy(conversation_id) == conversation_id \notin {None, ""}

SourcesUsed(sources) ==
    [i \in 1..Len(sources) |->
        [source |-> SourceName(sources[i]),
         similarity |-> sources[i].similarity_score]]

\* The same dict with the sources left out.
ConversationData_without_sources(response, query, conversation_id, user_id) ==
    [conversation_id |-> conversation_id,
     user_id |-> user_id,
     query |-> query,
     answer |-> response.answer,
     confidence |-> ConfidencePercent(response.confidence),
     sources_used |-> <<>>]

\* The dict built at lines 83-96, for a conversation_id that is given.
ConversationData(response, query, conversation_id, user_id) ==
    [conversation_id |-> conversation_id,
     user_id |-> user_id,
     query |-> query,
     answer |-> response.answer,
     confidence |-> ConfidencePercent(response.confidence),
     sources_used |-> SourcesUsed(response.sources)]

\* With no conversation_id the id is to be synthesized from datetime.now(), but
\* rag_pipeline.py imports only typing, loguru and json: evaluating the
\* f-string raises NameError before anything is saved.
\* The same method letting the rejection of a stored conversation_id escape.
_save_to_history_raises_on_duplicate(p, db, response, query, conversation_id, user_id, fault, now) ==
    IF ~(p.db_manager /\ p.ENABLE_HISTORY)
    THEN [exc |-> NoExc, rows |-> db.rows, next_id |-> db.next_id]
    ELSE IF ~Truthy(conversation_id)
    THEN [exc |-> NAME_ERROR, rows |-> db.rows, next_id |-> db.next_id]
    ELSE IF HasConversation(db.rows, conversation_id)
    THEN [exc |-> "IntegrityError", rows |-> db.rows, next_id |-> db.next_id]
    ELSE LET saved == save_conversation(db,
                        ConversationData(response, query, conversation_id, user_id),
                        fault, now)
         IN  [exc |-> saved.exc, rows |-> saved.rows, next_id |-> saved.next_id]

_save_to_history(p, db, response, query, conversation_id, user_id, fault, now) ==
    IF ~(p.db_manager /\ p.ENABLE_HISTORY)
    THEN [exc |-> NoExc, rows |-> db.rows, next_id |-> db.next_id]
    ELSE IF ~Truthy(conversation_id)
    THEN [exc |-> NAME_ERROR, rows |-> db.rows, next_id |-> db.next_id]
    ELSE LET saved == save_conversation(db,
                        ConversationData(response, query, conversation_id, user_id),
                        fault, now)
         IN  [exc |-> saved.exc, rows |-> saved.rows, next_id |-> saved.next_id]

-----------------------------------------------------------------------------
(* RAGPipeline.process_query *)

\* The statements inside the try block, lines 17-69.  vector_store.search
\* catches its own failures and returns [], so retrieved_docs is any list;
\* generate_response catches the failures of the LLM call.
TryBlock(p, db, query, conversation_id, user_id, retrieved_docs, llm_ok, fault, now) ==
    IF retrieved_docs = <<>>
    THEN LET response == NoEvidenceResult
             h == _save_to_history(p, db, response, query, conversation_id,
                                   user_id, fault, now)
         IN  [exc |-> h.exc, response |-> response, rows |-> h.rows,
              next_id |-> h.next_id, gen_calls |-> 0]
    ELSE LET filtered == filtered_docs(retrieved_docs, SIMILARITY_THRESHOLD)
         IN  IF filtered = <<>>
             THEN LET response == LowConfidenceResult(retrieved_docs)
                      h == _save_to_history(p, db, response, query,
                                            conversation_id, user_id, fault, now)
                  IN  [exc |-> h.exc, response |-> response, rows |-> h.rows,
                       next_id |-> h.next_id, gen_calls |-> 0]
             ELSE LET context == _prepare_context(filtered)
                      llm_response == generate_response(query, context, llm_ok)
                      result == AnsweredResult(llm_response, filtered,
                                               conversation_id)
                      h == _save_to_history(p, db, result, query,
                                            conversation_id, user_id, fault, now)
                  IN  [exc |-> h.exc, response |-> result, rows |-> h.rows,
                       next_id |-> h.next_id, gen_calls |-> 1]

\* The same method without the except clause of lines 71-78.
process_query_no_except(p, db, query, conversation_id, user_id, retrieved_docs, llm_ok, fault, now) ==
    LET t == TryBlock(p, db, query, conversation_id, user_id, retrieved_docs,
                      llm_ok, fault, now)
    IN  [raised |-> t.exc # NoExc,
         result |-> IF t.exc = NoExc THEN <<t.response>> ELSE <<>>,
         rows |-> t.rows, next_id |-> t.next_id, gen_calls |-> t.gen_calls]

\* try: ... except Exception as e: return the PipelineError result.
process_query(p, db, query, conversation_id, user_id, retrieved_docs, llm_ok, fault, now) ==
    LET t == TryBlock(p, db, query, conversation_id, user_id, retrieved_docs,
                      llm_ok, fault, now)
    IN  [raised |-> FALSE,
         result |-> IF t.exc = NoExc THEN <<t.response>>
                    ELSE <<PipelineErrorResult(t.exc)>>,
         rows |-> t.rows, next_id |-> t.next_id, gen_calls |-> t.gen_calls]

-----------------------------------------------------------------------------
(* DatabaseManager.update_feedback and cleanup_old_conversations *)

\* Index of the row .first() returns, 0 when the query matches no row.
FirstMatch(rows, conversation_id) ==
    IF HasConversation(rows, conversation_id)
    THEN CHOOSE i \in 1..Len(rows) :
            /\ rows[i].conversation_id = conversation_id
            /\ \A j \in 1..(i - 1) : rows[j].conversation_id # conversation_id
    ELSE 0

\* The same method reporting success without looking for the record.
update_feedback_always_true(db, conversation_id, helpful, fault) ==
    LET i == FirstMatch(db.rows, conversation_id)
    IN  [exc |-> NoExc,
         rows |-> IF i = 0 THEN db.rows
                  ELSE [db.rows EXCEPT ![i].helpful_feedback = helpful],
         result |-> TRUE]

\* The same method without the filter on conversation_id.
update_feedback_every_record(db, conversation_id, helpful, fault) ==
    IF HasConversation(db.rows, conversation_id)
    THEN [exc |-> NoExc,
          rows |-> [i \in 1..Len(db.rows) |->
                       [db.rows[i] EXCEPT !.helpful_feedback = helpful]],
          result |-> TRUE]
    ELSE [exc |-> NoExc, rows |-> db.rows, result |-> FALSE]

update_feedback(db, conversation_id, helpful, fault) ==
    IF ~db.SessionLocal THEN [exc |-> NoExc, rows |-> db.rows, result |-> FALSE]
    ELSE IF fault = "open"
    THEN [exc |-> UNBOUND_LOCAL_ERROR, rows |-> db.rows, result |-> FALSE]
    ELSE LET i == FirstMatch(db.rows, conversation_id)
         IN  IF i = 0 THEN [exc |-> NoExc, rows |-> db.rows, result |-> FALSE]
             ELSE IF fault = "commit"
             THEN [exc |-> NoExc, rows |-> db.rows, result |-> FALSE]
             ELSE [exc |-> NoExc,
                   rows |-> [db.rows EXCEPT ![i].helpful_feedback = helpful],
                   result |-> TRUE]

\* deleted_count is the local the method logs; the method has no return
\* statement with a value, so it returns None on every path.
\* The same method deleting the records at the horizon too.
cleanup_old_conversations_at_horizon(db, days, fault, now) ==
    LET kept == SelectSeq(db.rows, LAMBDA r : ~(r.created_at <= now - days))
    IN  [exc |-> NoExc, rows |-> kept,
         deleted_count |-> Len(db.rows) - Len(kept)]

cleanup_old_conversations(db, days, fault, now) ==
    IF ~db.SessionLocal THEN [exc |-> NoExc, rows |-> db.rows, deleted_count |-> 0]
    ELSE IF fault = "open"
    THEN [exc |-> UNBOUND_LOCAL_ERROR, rows |-> db.rows, deleted_count |-> 0]
    ELSE IF fault = "commit"
    THEN [exc |-> NoExc, rows |-> db.rows, deleted_count |-> 0]
    ELSE LET kept == SelectSeq(db.rows, LAMBDA r : ~(r.created_at < now - days))
         IN  [exc |-> NoExc, rows |-> kept,
              deleted_count |-> Len(db.rows) - Len(kept)]

-----------------------------------------------------------------------------
(* DatabaseManager.get_conversation_history *)

\* Conversation.to_dict.  The stored text is never empty ("[]" at least), so
\* json.loads always runs.
to_dict(row) ==
    [id |-> row.id,
     conversation_id |-> row.conversation_id,
     user_id |-> row.user_id,
     query |-> row.query,
     answer |-> row.answer,
     confidence |-> row.confidence,
     sources_used |-> json_loads(row.sources_used),
     created_at |-> row.created_at,
     helpful_feedback |-> row.helpful_feedback]

Min(a, b) == IF a <= b THEN a ELSE b

\* ORDER BY created_at DESC: every arrangement of the rows with created_at
\* non-increasing; rows of equal created_at come in an unspecified order.
DescendingOrders(rows) ==
    {f \in [1..Len(rows) -> 1..Len(rows)] :
        /\ \A i \in 1..Len(rows), j \in 1..Len(rows) : i # j => f[i] # f[j]
        /\ \A i \in 1..(Len(rows) - 1) :
              rows[f[i]].created_at >= rows[f[i + 1]].created_at}

Listing(rows, limit) ==
    {[i \in 1..Min(limit, Len(rows)) |-> to_dict(rows[f[i]])] :
        f \in DescendingOrders(rows)}

\* The same method applying both filters when both arguments are given.
get_conversation_history_both_filters(db, conversation_id, user_id, limit, fault) ==
    IF ~db.SessionLocal THEN [exc |-> NoExc, results |-> {<<>>}]
    ELSE IF fault = "open" THEN [exc |-> UNBOUND_LOCAL_ERROR, results |-> {<<>>}]
    ELSE IF fault = "query" THEN [exc |-> NoExc, results |-> {<<>>}]
    ELSE LET matches ==
                SelectSeq(db.rows, LAMBDA r :
                    /\ Truthy(conversation_id) => r.conversation_id = conversation_id
                    /\ Truthy(user_id) => r.user_id = user_id)
         IN  [exc |-> NoExc, results |-> Listing(matches, limit)]

\* results is the set of lists the call can return.  fault: "open" SessionLocal()
\* raises (UnboundLocalError from the finally block, as in save_conversation),
\* "query" the query raises (caught, [] returned).
get_conversation_history(db, conversation_id, user_id, limit, fault) ==
    IF ~db.SessionLocal THEN [exc |-> NoExc, results |-> {<<>>}]
    ELSE IF fault = "open" THEN [exc |-> UNBOUND_LOCAL_ERROR, results |-> {<<>>}]
    ELSE IF fault = "query" THEN [exc |-> NoExc, results |-> {<<>>}]
    ELSE LET matches ==
                IF Truthy(conversation_id)
                THEN SelectSeq(db.rows, LAMBDA r : r.conversation_id = conversation_id)
                ELSE IF Truthy(user_id)
                THEN SelectSeq(db.rows, LAMBDA r : r.user_id = user_id)
                ELSE db.rows
         IN  [exc |-> NoExc, results |-> Listing(matches, limit)]

\* RAGPipeline.get_conversation_history: [] unless history is on.
pipeline_get_conversation_history(p, db, conversation_id, user_id, limit, fault) ==
    IF p.db_manager /\ p.ENABLE_HISTORY
    THEN get_conversation_history(db, conversation_id, user_id, limit, fault)
    ELSE [exc |-> NoExc, results |-> {<<>>}]

-----------------------------------------------------------------------------
(* VectorStoreManager.  index is the collection: a sequence of entries
   [id, document, metadata] in insertion order.  The embeddings are
   represented by the distance the collection computes between a query and a
   stored text, in thousandths. *)

Texts == {"fees", "fee structure", "fee payment", "hostels"}

\* Squared L2 distance between the embeddings of the query and of the text.
\* The encoder is a function of the text, so equal texts are at distance 0;
\* the distance is symmetric, equal for two of the texts from "fees", and
\* above 1 from "hostels".
DistanceTo(query, text) ==
    IF query = text THEN 0
    ELSE IF "hostels" \in {query, text} THEN 1400
    ELSE IF "fees" \in {query, text} THEN 183
    ELSE 300

Documents == {[text |-> t, metadata |-> [source |-> "handbook.pdf"]] : t \in Texts}

Batches == UNION {[1..n -> Documents] : n \in 1..MaxBatch}

\* f"doc_{i}"
DocId(i) == <<"doc", i>>

IndexIds(idx) == {idx[i].id : i \in 1..Len(idx)}

\* fault: "none", or "add" when encoding the texts or collection.add raises;
\* the except clause logs, and the index is as before.  collection.add skips
\* the ids the collection already holds.
add_documents(idx, documents, fault) ==
    IF fault = "add" THEN idx
    ELSE LET entries == [i \in 1..Len(documents) |->
                            [id |-> DocId(i - 1),
                             document |-> documents[i].text,
                             metadata |-> documents[i].metadata]]
         IN  idx \o SelectSeq(entries, LAMBDA e : e.id \notin IndexIds(idx))

\* collection.query orders by distance ascending; entries at equal distance
\* come in an unspecified order.
NearestOrders(idx, query) ==
    {f \in [1..Len(idx) -> 1..Len(idx)] :
        /\ \A i \in 1..Len(idx), j \in 1..Len(idx) : i # j => f[i] # f[j]
        /\ \A i \in 1..(Len(idx) - 1) :
              DistanceTo(query, idx[f[i]].document)
                  <= DistanceTo(query, idx[f[i + 1]].document)}

\* The formatted results of a query that returned.
FormattedResults(idx, query, n) ==
    {[i \in 1..Min(n, Len(idx)) |->
         [content |-> idx[f[i]].document,
          metadata |-> idx[f[i]].metadata,
          similarity_score |-> Scale - DistanceTo(query, idx[f[i]].document)]] :
        f \in NearestOrders(idx, query)}

\* The same method without its except clause.
search_no_except(idx, query, n_results, fault) ==
    LET n == IF n_results = <<>> THEN TOP_K_RESULTS ELSE n_results[1]
    IN  IF fault # "none" \/ n <= 0
        THEN [exc |-> "search error", results |-> {<<>>}]
        ELSE [exc |-> NoExc, results |-> FormattedResults(idx, query, n)]

\* n_results is <<>> for None and <<k>> for k.  fault: "embed" encoding the
\* query raises, "query" collection.query raises; collection.query also
\* raises for n_results <= 0.  results is the set of lists the call can return.
search(idx, query, n_results, fault) ==
    LET n == IF n_results = <<>> THEN TOP_K_RESULTS ELSE n_results[1]
    IN  IF fault # "none" \/ n <= 0
        THEN [exc |-> NoExc, results |-> {<<>>}]
        ELSE [exc |-> NoExc, results |-> FormattedResults(idx, query, n)]

-----------------------------------------------------------------------------
(* The state machine *)

Database == [rows |-> store, next_id |-> next_id, SessionLocal |-> SessionLocal(pipeline)]

\* What op holds: the return value is <<v>>, and <<>> when the operation
\* returned None or raised.
Op(name, args, exc, result) ==
    [name |-> name, args |-> args, exc |-> exc, result |-> result]

NoOp == Op("none", <<>>, NoExc, <<>>)

\* The two concurrent invocations.
Procs == {1, 2}

\* An invocation that has not been called: pc and the locals of process_query.
\* response and ret are <<>> until assigned, rows0 is the table at the call.
IdleProc ==
    [pc |-> "idle", conversation_id |-> None, retrieved_docs |-> <<>>,
     llm_ok |-> TRUE, fault |-> "none", response |-> <<>>, ret |-> <<>>,
     rows0 |-> <<>>]

NoCall ==
    [query |-> "", conversation_id |-> None, user_id |-> "",
     retrieved_docs |-> <<>>, llm_ok |-> TRUE, fault |-> "none"]

Init ==
    /\ pipeline \in [db_manager : BOOLEAN, ENABLE_HISTORY : BOOLEAN]
    /\ store = <<>>
    /\ next_id = 1
    /\ clock = 0
    /\ calls = 0
    /\ outcome = "none"
    /\ call = NoCall
    /\ ret = <<>>
    /\ wrote = 0
    /\ gen_calls = 0
    /\ supplied = {}
    /\ op = NoOp
    /\ index = <<>>
    /\ proc = [p \in Procs |-> IdleProc]

\* One process_query invocation, from call to return.
ProcessQuery(query, conversation_id, user_id, retrieved_docs, llm_ok, fault) ==
    \E r \in {process_query(pipeline, Database, query, conversation_id, user_id,
                           retrieved_docs, llm_ok, fault, clock)} :
        /\ store' = r.rows
        /\ next_id' = r.next_id
        /\ outcome' = IF r.raised THEN "raised" ELSE "returned"
        /\ ret' = r.result
        /\ wrote' = Len(r.rows) - Len(store)
        /\ gen_calls' = r.gen_calls
        /\ call' = [query |-> query, conversation_id |-> conversation_id,
                    user_id |-> user_id, retrieved_docs |-> retrieved_docs,
                    llm_ok |-> llm_ok, fault |-> fault]
        /\ supplied' = IF conversation_id = None THEN supplied
                       ELSE supplied \cup {conversation_id}
        /\ op' = Op("process_query", <<>>, NoExc, <<>>)
        /\ UNCHANGED <<pipeline, clock, index, proc>>

\* The generator has an outcome only in a run that calls it.
CallsGenerator(retrieved_docs) ==
    filtered_docs(retrieved_docs, SIMILARITY_THRESHOLD) # <<>>

\* The session has an outcome only in a run that calls save_conversation.
CallsSave(conversation_id) ==
    pipeline.db_manager /\ pipeline.ENABLE_HISTORY /\ Truthy(conversation_id)

Query ==
    /\ calls < MaxCalls
    /\ calls' = calls + 1
    /\ \E query \in Queries, conversation_id \in QueryConversationIds \cup {None},
          retrieved_docs \in DocLists, llm_ok \in BOOLEAN, fault \in Faults :
            /\ llm_ok \/ CallsGenerator(retrieved_docs)
            /\ fault = "none" \/ CallsSave(conversation_id)
            /\ ProcessQuery(query, conversation_id, "anonymous", retrieved_docs,
                            llm_ok, fault)

Next == Query

Spec == Init /\ [][Next]_vars

-----------------------------------------------------------------------------
(* The history store under its own operations *)

StoreFaults == {"none", "open", "commit"}

Save ==
    /\ UNCHANGED calls
    /\ \E conversation_id \in ConversationIds \cup {None}, user_id \in UserIds,
          fault \in {"none", "commit"} :
            /\ fault = "none" \/ CallsSave(conversation_id)
            /\ ProcessQuery("fees", conversation_id, user_id, <<>>, TRUE, fault)

\* outcome, call, ret, wrote and gen_calls describe the last operation when it
\* was a process_query invocation; any other operation clears them.
ClearQuery ==
    /\ outcome' = "none"
    /\ call' = NoCall
    /\ ret' = <<>>
    /\ wrote' = 0
    /\ gen_calls' = 0

UpdateFeedback ==
    \E conversation_id \in ConversationIds, helpful \in {"True", "False"},
       fault \in StoreFaults :
        \E r \in {update_feedback(Database, conversation_id, helpful, fault)} :
            /\ store' = r.rows
            /\ op' = Op("update_feedback",
                        [conversation_id |-> conversation_id, helpful |-> helpful,
                         fault |-> fault],
                        r.exc, IF r.exc = NoExc THEN <<r.result>> ELSE <<>>)
            /\ ClearQuery
            /\ UNCHANGED <<pipeline, next_id, clock, calls, supplied, index, proc>>

Cleanup ==
    \E fault \in StoreFaults :
        \E r \in {cleanup_old_conversations(Database, HISTORY_RETENTION_DAYS,
                                            fault, clock)} :
            /\ store' = r.rows
            /\ op' = Op("cleanup_old_conversations",
                        [fault |-> fault, deleted_count |-> r.deleted_count],
                        r.exc, <<>>)
            /\ ClearQuery
            /\ UNCHANGED <<pipeline, next_id, clock, calls, supplied, index, proc>>

\* Time passes: a retention horizon, or a day more than that.
Tick ==
    \E days \in {HISTORY_RETENTION_DAYS, HISTORY_RETENTION_DAYS + 1} :
        /\ clock + days <= MaxClock
        /\ clock' = clock + days
        /\ UNCHANGED <<pipeline, store, next_id, calls, outcome, call, ret,
                       wrote, gen_calls, supplied, op, index, proc>>

StoreNext == Save \/ UpdateFeedback \/ Cleanup \/ Tick

StoreSpec == Init /\ [][StoreNext]_vars

-----------------------------------------------------------------------------
(* Vocabulary of the properties *)

Returned == outcome = "returned"
Result == ret[1]
HistoryOn == pipeline.db_manager /\ pipeline.ENABLE_HISTORY

\* The rows the store held when the last invocation was called.
PreStore == SubSeq(store, 1, Len(store) - wrote)

RatEq(a, b) == a.num * b.den = b.num * a.den

\* Indices of the candidates of docs at or above tau.
Kept(docs, tau) == {i \in 1..Len(docs) : docs[i].similarity_score >= tau}

\* f is docs restricted to Kept(docs, tau), order preserved.
IsRestriction(f, docs, tau) ==
    /\ Len(f) = Cardinality(Kept(docs, tau))
    /\ \A j \in Kept(docs, tau) :
          f[Cardinality({k \in Kept(docs, tau) : k <= j})] = docs[j]

Elements(f) == {f[i] : i \in 1..Len(f)}

IsPipelineError(r) ==
    /\ r.answer = ANSWER_PIPELINE_ERROR
    /\ r.sources = <<>>
    /\ RatEq(r.confidence, Rat(0, 1))
    /\ r.error # None

\* c is x * 100 rounded to the nearest integer, x = r.num / r.den thousandths.
IsNearestPercent(c, r) ==
    LET scaled == r.num * 100
        unit == r.den * Scale
        diff == IF scaled >= c * unit THEN scaled - c * unit ELSE c * unit - scaled
    IN  2 * diff <= unit

-----------------------------------------------------------------------------
(* C1 - process_query never raises to its caller: whatever the search
   returned, whether the generator and the history save succeeded, failed or
   raised, with history on or off and with or without a conversation_id, the
   invocation returns a value with the fields answer, sources, confidence and
   error. *)
C1_NeverRaises ==
    outcome # "none" =>
        /\ outcome = "returned"
        /\ Len(ret) = 1
        /\ {"answer", "sources", "confidence", "error"} \subseteq DOMAIN Result

\* An exception left the try block and the except clause turned it into a result.
C1_Witness ==
    /\ Returned
    /\ Result.error \in {NAME_ERROR, UNBOUND_LOCAL_ERROR}
    /\ call.retrieved_docs # <<>>

(* C2 - when the search returns no candidates, process_query returns the
   NoEvidence result (canned answer, sources = [], confidence = 0.0,
   error = null), in every history configuration. *)
C2_NoEvidence ==
    (Returned /\ call.retrieved_docs = <<>>) =>
        /\ Result.answer = ANSWER_NO_EVIDENCE
        /\ Result.sources = <<>>
        /\ RatEq(Result.confidence, Rat(0, 1))
        /\ Result.error = None

(* C3 - when the search returns candidates that are all below the threshold,
   process_query returns the LowConfidence result: the canned answer, sources
   = the unfiltered candidates in their order, confidence = the largest
   similarity among them, error = null; the generator is not called. *)
C3_LowConfidence ==
    (/\ Returned
     /\ call.retrieved_docs # <<>>
     /\ Kept(call.retrieved_docs, SIMILARITY_THRESHOLD) = {}) =>
        /\ Result.answer = ANSWER_LOW_CONFIDENCE
        /\ Result.sources = call.retrieved_docs
        /\ \E i \in 1..Len(call.retrieved_docs) :
              /\ RatEq(Result.confidence,
                       Rat(call.retrieved_docs[i].similarity_score, 1))
              /\ \A j \in 1..Len(call.retrieved_docs) :
                    call.retrieved_docs[j].similarity_score
                        <= call.retrieved_docs[i].similarity_score
        /\ Result.error = None
        /\ gen_calls = 0

(* C4 - when some candidate is at or above the threshold, process_query
   returns the Answered result: the generator's answer, sources = exactly the
   candidates at or above the threshold, confidence = the sum of their
   similarities divided by their number. *)
C4_Answered ==
    (Returned /\ Kept(call.retrieved_docs, SIMILARITY_THRESHOLD) # {}) =>
        /\ Result.answer = IF call.llm_ok THEN ANSWER_LLM ELSE ANSWER_LLM_APOLOGY
        /\ IsRestriction(Result.sources, call.retrieved_docs, SIMILARITY_THRESHOLD)
        /\ \A i \in 1..Len(Result.sources) :
              Result.sources[i].similarity_score >= SIMILARITY_THRESHOLD
        /\ Result.confidence.den * SumScores(Result.sources)
              = Result.confidence.num * Len(Result.sources)

(* C5 - for every threshold and candidate list the filtered list is exactly
   the candidates at or above the threshold (one equal to it is kept), in
   their original order; and for tau1 <= tau2 the list filtered by tau2 is
   contained in the list filtered by tau1 and is no longer than it. *)
C5_FilterExactAndMonotone ==
    Returned =>
        /\ \A tau \in Thresholds :
              IsRestriction(filtered_docs(call.retrieved_docs, tau),
                            call.retrieved_docs, tau)
        /\ \A tau1 \in Thresholds, tau2 \in Thresholds :
              tau1 <= tau2 =>
                /\ Len(filtered_docs(call.retrieved_docs, tau2))
                      <= Len(filtered_docs(call.retrieved_docs, tau1))
                /\ Elements(filtered_docs(call.retrieved_docs, tau2))
                      \subseteq Elements(filtered_docs(call.retrieved_docs, tau1))

\* A list with a candidate exactly at the threshold and one below it was
\* filtered, and only the first came back as a source.
C5_Witness ==
    /\ Returned
    /\ Len(call.retrieved_docs) = 2
    /\ call.retrieved_docs[1].similarity_score = SIMILARITY_THRESHOLD
    /\ call.retrieved_docs[2].similarity_score < SIMILARITY_THRESHOLD
    /\ Result.sources = <<call.retrieved_docs[1]>>

(* C6 - with history enabled and a working store, every invocation that
   reaches NoEvidence, LowConfidence or Answered writes exactly one record
   holding its query and answer and returns the result of that terminal
   state, both for a fresh caller-supplied conversation_id and for no
   conversation_id (the id being synthesized from a timestamp). *)
C6_OneRecordPerRun ==
    (/\ Returned
     /\ HistoryOn
     /\ call.fault = "none"
     /\ \/ call.conversation_id = None
        \/ ~HasConversation(PreStore, call.conversation_id)) =>
        /\ wrote = 1
        /\ store[Len(store)].query = call.query
        /\ store[Len(store)].answer = Result.answer
        /\ ~IsPipelineError(Result)

(* C7 - a failure of the history write never changes the QueryResult: the
   result returned when the write fails equals the result returned for the
   same query and index state when the write succeeds. *)
C7_WriteFailureInvisible ==
    (Returned /\ HistoryOn /\ Truthy(call.conversation_id)) =>
        ret = process_query(pipeline,
                  [rows |-> PreStore, next_id |-> next_id - wrote,
                   SessionLocal |-> SessionLocal(pipeline)],
                  call.query, call.conversation_id, call.user_id,
                  call.retrieved_docs, call.llm_ok, "none", clock).result

(* C8 - whenever process_query returns the PipelineError result, no record
   was written to the history store by that invocation. *)
C8_ErrorWritesNothing ==
    (Returned /\ IsPipelineError(Result)) => wrote = 0

\* The save was attempted with a given conversation_id, the session could not
\* be opened, and the PipelineError result came back.
C8_Witness ==
    /\ Returned
    /\ HistoryOn
    /\ Truthy(call.conversation_id)
    /\ call.fault = "open"
    /\ IsPipelineError(Result)
    /\ Result.error = UNBOUND_LOCAL_ERROR

(* C9 - every record written by the pipeline has confidence equal to the
   QueryResult confidence times 100 rounded to the nearest integer. *)
C9_ConfidenceRounded ==
    (Returned /\ wrote = 1) =>
        IsNearestPercent(store[Len(store)].confidence, Result.confidence)

(* C10 - after any sequence of save, update_feedback and cleanup operations
   no two stored records have the same conversation_id, and every stored
   conversation_id is one a caller supplied (or one synthesized by the
   pipeline, which the code never gets to store). *)
C10_UniqueConversationIds ==
    /\ \A i \in 1..Len(store), j \in 1..Len(store) :
          i # j => store[i].conversation_id # store[j].conversation_id
    /\ \A i \in 1..Len(store) : store[i].conversation_id \in supplied

\* Two records are stored and a save with an id already stored was refused.
C10_Witness ==
    /\ Len(store) = 2
    /\ Returned
    /\ wrote = 0
    /\ call.fault = "none"
    /\ HasConversation(store, call.conversation_id)
    /\ \E i \in 1..Len(store) : store[i].helpful_feedback # None

-----------------------------------------------------------------------------
\* The lists a lookup of conversation_id can return in the current state.
Lookup(conversation_id) ==
    get_conversation_history(Database, conversation_id, None, 20, "none").results

RowsOf(conversation_id) ==
    SelectSeq(store, LAMBDA r : r.conversation_id = conversation_id)

\* The last invocation saved, with a working session, under an id that was
\* already stored when it was called.
SavedAgain ==
    /\ Returned
    /\ HistoryOn
    /\ Truthy(call.conversation_id)
    /\ call.fault = "none"
    /\ HasConversation(PreStore, call.conversation_id)

(* C11 - when save is called with a conversation_id that is already stored,
   the last write wins: a lookup of that id afterwards returns the query,
   answer, confidence and sources of the later save. *)
C11_LastWriteWins ==
    SavedAgain =>
        \A listing \in Lookup(call.conversation_id) :
            /\ listing # <<>>
            /\ listing[1].query = call.query
            /\ listing[1].answer = Result.answer
            /\ listing[1].confidence = ConfidencePercent(Result.confidence)
            /\ listing[1].sources_used = SourcesUsed(Result.sources)

(* C12 - each turn is its own record: after two successive process_query
   calls with the same caller-supplied conversation_id that both reach a
   non-error terminal state, the store holds a record for each turn and the
   listing by that id returns both, most recent first. *)
C12_EachTurnStored ==
    (SavedAgain /\ ~IsPipelineError(Result)) =>
        /\ Len(RowsOf(call.conversation_id)) = 2
        /\ \A listing \in Lookup(call.conversation_id) :
              /\ Len(listing) = 2
              /\ listing[1].answer = Result.answer
              /\ listing[1].created_at >= listing[2].created_at

\* The last invocation went through the generator.
AnsweredRun == Returned /\ Kept(call.retrieved_docs, SIMILARITY_THRESHOLD) # {}

(* C13 - when the generator fails during an Answered run, process_query
   still returns with error = the generator's error, answer = the generator's
   apology, sources = the filtered candidates and confidence = their mean;
   when the generator succeeds, error is null; the history record, if history
   is enabled, is written in both cases. *)
C13_GeneratorFailureMirrored ==
    AnsweredRun =>
        /\ Result.error = IF call.llm_ok THEN None ELSE LLM_ERROR
        /\ Result.answer = IF call.llm_ok THEN ANSWER_LLM ELSE ANSWER_LLM_APOLOGY
        /\ IsRestriction(Result.sources, call.retrieved_docs, SIMILARITY_THRESHOLD)
        /\ Result.confidence.den * SumScores(Result.sources)
              = Result.confidence.num * Len(Result.sources)
        /\ (/\ HistoryOn
            /\ call.fault = "none"
            /\ ~HasConversation(PreStore, call.conversation_id)) => wrote = 1

(* C14 - every QueryResult satisfies: error != null implies the pipeline
   aborted before the generator was called; and confidence carries a value
   (is not zero) only when sources is non-empty. *)
C14_ErrorMeansNoGeneration ==
    Returned =>
        /\ Result.error # None => gen_calls = 0
        /\ Result.confidence.num # 0 => Result.sources # <<>>

\* C14 as it holds: error != null implies that the result is the PipelineError
\* result or that the generator was called and failed, the error being the
\* generator's; confidence is not zero only when sources is non-empty.
C14_ErrorAndConfidence ==
    Returned =>
        /\ Result.error # None =>
              \/ IsPipelineError(Result)
              \/ /\ gen_calls = 1
                 /\ ~call.llm_ok
                 /\ Result.error = LLM_ERROR
        /\ Result.confidence.num # 0 => Result.sources # <<>>

\* The generator failed, and a result with its error and sources came back.
C14_Witness ==
    /\ Returned
    /\ gen_calls = 1
    /\ Result.error = LLM_ERROR
    /\ Result.sources # <<>>
    /\ Result.confidence.num # 0

FourFields == {"answer", "sources", "confidence", "error"}

(* C15 - the results of all four terminal states carry the same set of
   fields. *)
C15_UniformShape ==
    Returned => DOMAIN Result = FourFields

\* C15 as it holds: all four results carry answer, sources, confidence and
\* error; NoEvidence, LowConfidence and PipelineError carry exactly these, and
\* Answered carries sources_used and conversation_id in addition.
C15_CommonFields ==
    Returned =>
        IF gen_calls = 1 /\ ~IsPipelineError(Result)
        THEN DOMAIN Result = FourFields \cup {"sources_used", "conversation_id"}
        ELSE DOMAIN Result = FourFields

\* An Answered result came back from a run that also saved its record.
C15_Witness ==
    /\ Returned
    /\ gen_calls = 1
    /\ wrote = 1
    /\ Result.answer = ANSWER_LLM
    /\ "conversation_id" \in DOMAIN Result

-----------------------------------------------------------------------------
(* History reads: HistorySpec saves records as StoreSpec does, lets time pass
   and reads the history through RAGPipeline.get_conversation_history. *)

Limits == {1, 2}

HistoryFaults == {"none", "open", "query"}

GetHistory ==
    \E conversation_id \in ConversationIds \cup {None},
       user_id \in UserIds \cup {None}, limit \in Limits,
       fault \in HistoryFaults :
        \E r \in {pipeline_get_conversation_history(pipeline, Database,
                       conversation_id, user_id, limit, fault)} :
            /\ fault = "none" \/ HistoryOn
            /\ \E result \in r.results :
                  op' = Op("get_conversation_history",
                           [conversation_id |-> conversation_id,
                            user_id |-> user_id, limit |-> limit,
                            fault |-> fault],
                           r.exc, IF r.exc = NoExc THEN <<result>> ELSE <<>>)
            /\ ClearQuery
            /\ UNCHANGED <<pipeline, store, next_id, clock, calls, supplied,
                           index, proc>>

HistoryNext == Save \/ Tick \/ GetHistory

HistorySpec == Init /\ [][HistoryNext]_vars

-----------------------------------------------------------------------------
(* The vector store: IndexSpec adds batches of documents and searches. *)

SearchFaults == {"none", "embed", "query"}

NResults == {<<>>, <<0>>, <<1>>, <<2>>}

AddDocuments ==
    \E documents \in Batches, fault \in {"none", "add"} :
        /\ index' = add_documents(index, documents, fault)
        /\ op' = Op("add_documents",
                    [documents |-> documents, fault |-> fault], NoExc, <<>>)
        /\ UNCHANGED <<pipeline, store, next_id, clock, calls, outcome, call,
                       ret, wrote, gen_calls, supplied, proc>>

Search ==
    \E query \in Queries, n_results \in NResults, fault \in SearchFaults :
        \E r \in {search(index, query, n_results, fault)} :
            /\ \E result \in r.results :
                  op' = Op("search",
                           [query |-> query, n_results |-> n_results,
                            fault |-> fault],
                           r.exc, IF r.exc = NoExc THEN <<result>> ELSE <<>>)
            /\ UNCHANGED <<pipeline, store, next_id, clock, calls, outcome,
                           call, ret, wrote, gen_calls, supplied, index, proc>>

IndexNext == AddDocuments \/ Search

IndexSpec == Init /\ [][IndexNext]_vars

-----------------------------------------------------------------------------
(* Context assembly and generation on their own: ContextSpec applies
   _prepare_context to the filtered candidates of a retrieval, and
   generate_response to a context, empty or not. *)

Contexts ==
    {_prepare_context(filtered_docs(retrieved_docs, tau)) :
        retrieved_docs \in DocLists, tau \in Thresholds}

PrepareContext ==
    \E retrieved_docs \in DocLists, tau \in Thresholds :
        /\ op' = Op("_prepare_context",
                    [retrieved_docs |-> retrieved_docs, threshold |-> tau],
                    NoExc,
                    <<_prepare_context(filtered_docs(retrieved_docs, tau))>>)
        /\ UNCHANGED <<pipeline, store, next_id, clock, calls, outcome, call,
                       ret, wrote, gen_calls, supplied, index, proc>>

GenerateResponse ==
    \E question \in Queries, context \in Contexts, llm_ok \in BOOLEAN :
        /\ op' = Op("generate_response",
                    [question |-> question, context |-> context,
                     llm_ok |-> llm_ok],
                    NoExc, <<generate_response(question, context, llm_ok)>>)
        /\ UNCHANGED <<pipeline, store, next_id, clock, calls, outcome, call,
                       ret, wrote, gen_calls, supplied, index, proc>>

ContextNext == PrepareContext \/ GenerateResponse

ContextSpec == Init /\ [][ContextNext]_vars

-----------------------------------------------------------------------------
(* Concurrent invocations: ConcurrentSpec loads the index once and then runs
   two process_query invocations, interleaved at the calls of the shared
   collaborators: vector_store.search, llm_manager.generate_response and
   _save_to_history.  The statements between two calls touch only locals. *)

\* The index is loaded before the queries start.
LoadIndex ==
    /\ \A p \in Procs : proc[p].pc = "idle"
    /\ op = NoOp
    /\ AddDocuments

\* process_query(query, conversation_id) is called.
Call(p) ==
    /\ proc[p].pc = "idle"
    /\ \E conversation_id \in QueryConversationIds \cup {None} :
          proc' = [proc EXCEPT ![p] =
                      [IdleProc EXCEPT !.pc = "search",
                                       !.conversation_id = conversation_id,
                                       !.rows0 = store]]
    /\ UNCHANGED <<pipeline, store, next_id, clock, calls, outcome, call, ret,
                   wrote, gen_calls, supplied, op, index>>

\* Lines 20-46: the search, then the gate on its result.
Retrieve(p) ==
    /\ proc[p].pc = "search"
    /\ \E fault \in SearchFaults :
          \E retrieved_docs \in search(index, "fees", <<>>, fault).results :
              proc' = [proc EXCEPT ![p] =
                  [@ EXCEPT
                     !.retrieved_docs = retrieved_docs,
                     !.response =
                         IF retrieved_docs = <<>> THEN <<NoEvidenceResult>>
                         ELSE IF filtered_docs(retrieved_docs,
                                               SIMILARITY_THRESHOLD) = <<>>
                         THEN <<LowConfidenceResult(retrieved_docs)>>
                         ELSE <<>>,
                     !.pc =
                         IF filtered_docs(retrieved_docs,
                                          SIMILARITY_THRESHOLD) = <<>>
                         THEN "save" ELSE "generate"]]
    /\ UNCHANGED <<pipeline, store, next_id, clock, calls, outcome, call, ret,
                   wrote, gen_calls, supplied, op, index>>

\* Lines 49-62: the context, the generator call and the result dict.
Generate(p) ==
    /\ proc[p].pc = "generate"
    /\ \E llm_ok \in BOOLEAN :
          LET filtered == filtered_docs(proc[p].retrieved_docs,
                                        SIMILARITY_THRESHOLD)
              llm_response == generate_response("fees",
                                                _prepare_context(filtered), llm_ok)
          IN  proc' = [proc EXCEPT ![p] =
                  [@ EXCEPT
                     !.llm_ok = llm_ok,
                     !.response = <<AnsweredResult(llm_response, filtered,
                                                   proc[p].conversation_id)>>,
                     !.pc = "save"]]
    /\ UNCHANGED <<pipeline, store, next_id, clock, calls, outcome, call, ret,
                   wrote, gen_calls, supplied, op, index>>

\* _save_to_history and the return, or the except clause of lines 71-78.
SaveToHistory(p) ==
    /\ proc[p].pc = "save"
    /\ \E fault \in StoreFaults :
          /\ fault = "none" \/ CallsSave(proc[p].conversation_id)
          /\ \E h \in {_save_to_history(pipeline, Database, proc[p].response[1],
                                         "fees", proc[p].conversation_id,
                                         "anonymous", fault, clock)} :
                /\ store' = h.rows
                /\ next_id' = h.next_id
                /\ proc' = [proc EXCEPT ![p] =
                      [@ EXCEPT
                         !.fault = fault,
                         !.ret = IF h.exc = NoExc THEN proc[p].response
                                 ELSE <<PipelineErrorResult(h.exc)>>,
                         !.pc = "done"]]
    /\ UNCHANGED <<pipeline, clock, calls, outcome, call, ret, wrote,
                   gen_calls, supplied, op, index>>

ConcurrentNext ==
    \/ LoadIndex
    \/ \E p \in Procs : Call(p) \/ Retrieve(p) \/ Generate(p) \/ SaveToHistory(p)

ConcurrentSpec == Init /\ [][ConcurrentNext]_vars

-----------------------------------------------------------------------------
(* Claims about the store operations, under StoreSpec. *)

\* The step is the named store operation, run with a working session.
Ran(name) ==
    /\ op'.name = name
    /\ op'.args.fault = "none"
    /\ clock' = clock

\* update_feedback with the arguments of the step, on the store the step left.
SecondCall ==
    update_feedback([SessionLocal |-> SessionLocal(pipeline), rows |-> store'],
                    op'.args.conversation_id, op'.args.helpful, "none")

(* C16 - update_feedback returns false and changes nothing when no record
   has the given conversation_id; when a record exists it returns true and
   sets helpful_feedback to the given value; a second call with the same value
   returns true and leaves the whole store as the first call left it. *)
C16_UpdateFeedback ==
    [][Ran("update_feedback") =>
          IF ~HasConversation(store, op'.args.conversation_id)
          THEN /\ op'.result = <<FALSE>>
               /\ store' = store
          ELSE /\ op'.result = <<TRUE>>
               /\ \E i \in 1..Len(store') :
                     /\ store'[i].conversation_id = op'.args.conversation_id
                     /\ store'[i].helpful_feedback = op'.args.helpful
               /\ SecondCall.exc = NoExc
               /\ SecondCall.result = TRUE
               /\ SecondCall.rows = store']_vars

\* A feedback update found its record and set the value on it.
C16_Witness ==
    /\ op.name = "update_feedback"
    /\ op.args.fault = "none"
    /\ op.result = <<TRUE>>
    /\ \E i \in 1..Len(store) :
          /\ store[i].conversation_id = op.args.conversation_id
          /\ store[i].helpful_feedback = "False"

\* rows is a prefix of rows2.
IsPrefix(rows, rows2) ==
    /\ Len(rows) <= Len(rows2)
    /\ \A i \in 1..Len(rows) : rows2[i] = rows[i]

(* C17 - a stored record is mutated only by feedback updates:
   update_feedback changes only the helpful_feedback field of the one record
   with the given conversation_id and leaves every other field and record
   unchanged; save never modifies or removes an existing record; cleanup never
   modifies a record it keeps. *)
C17_Frame ==
    [][/\ op'.name = "update_feedback" =>
             /\ Len(store') = Len(store)
             /\ \A i \in 1..Len(store) :
                   IF store[i].conversation_id = op'.args.conversation_id
                   THEN store'[i] = [store[i] EXCEPT !.helpful_feedback =
                                                  store'[i].helpful_feedback]
                   ELSE store'[i] = store[i]
       /\ op'.name = "process_query" => IsPrefix(store, store')
       /\ op'.name = "cleanup_old_conversations" =>
             \A i \in 1..Len(store') : \E j \in 1..Len(store) :
                 store'[i] = store[j]]_vars

\* A feedback update changed one of two records and left the other as saved.
C17_Witness ==
    /\ op.name = "update_feedback"
    /\ op.result = <<TRUE>>
    /\ Len(store) = 2
    /\ \E i, j \in 1..Len(store) :
          /\ store[i].conversation_id = op.args.conversation_id
          /\ store[i].helpful_feedback = op.args.helpful
          /\ store[j].conversation_id # op.args.conversation_id
          /\ store[j].helpful_feedback = None

(* C19 - retention cleanup deletes exactly the records whose created_at is
   older than the horizon (now minus the configured number of days), keeps
   every record at or newer than the horizon, and returns the number of
   records it deleted. *)
C19_CleanupReturnsCount ==
    (/\ op.name = "cleanup_old_conversations"
     /\ op.args.fault = "none"
     /\ op.args.deleted_count > 0) => op.result = <<op.args.deleted_count>>

\* C19 as it holds: with a working session, cleanup deletes exactly the
\* records older than the horizon, keeps every record at or newer than it, and
\* returns nothing; the number of deleted records is counted and only logged.
C19_CleanupDeletesOlder ==
    [][Ran("cleanup_old_conversations") =>
          /\ store' = SelectSeq(store,
                 LAMBDA r : r.created_at >= clock - HISTORY_RETENTION_DAYS)
          /\ op'.args.deleted_count = Len(store) - Len(store')
          /\ op'.exc = NoExc
          /\ op'.result = <<>>]_vars

\* A cleanup deleted one record and kept a newer one.
C19_Witness ==
    /\ op.name = "cleanup_old_conversations"
    /\ op.args.deleted_count = 1
    /\ op.result = <<>>
    /\ Len(store) = 1
    /\ store[1].created_at >= clock - HISTORY_RETENTION_DAYS

-----------------------------------------------------------------------------
(* Claims about history reads, under HistorySpec. *)

\* The stored rows a read with these arguments selects from.
Candidates(args) ==
    IF Truthy(args.conversation_id)
    THEN SelectSeq(store, LAMBDA r : r.conversation_id = args.conversation_id)
    ELSE IF Truthy(args.user_id)
    THEN SelectSeq(store, LAMBDA r : r.user_id = args.user_id)
    ELSE store

(* C18 - history reads return at most `limit` records ordered by created_at
   descending; when both a conversation_id and a user_id are given, only the
   conversation_id filter is applied (records of that conversation are
   returned even if they belong to a different user, and other records of that
   user are not returned); when only user_id is given, exactly that user's
   records are candidates. *)
C18_HistoryReads ==
    (op.name = "get_conversation_history" /\ op.exc = NoExc) =>
        LET listing == op.result[1]
            candidates == Candidates(op.args)
            ids == {listing[i].conversation_id : i \in 1..Len(listing)}
        IN  /\ Len(listing) <= op.args.limit
            /\ \A i \in 1..(Len(listing) - 1) :
                  listing[i].created_at >= listing[i + 1].created_at
            /\ Cardinality(ids) = Len(listing)
            /\ \A i \in 1..Len(listing) : \E j \in 1..Len(candidates) :
                  listing[i] = to_dict(candidates[j])
            /\ op.args.fault = "none" =>
                  /\ Len(listing) = Min(op.args.limit, Len(candidates))
                  /\ \A j \in 1..Len(candidates) :
                        candidates[j].conversation_id \notin ids =>
                            \A i \in 1..Len(listing) :
                                listing[i].created_at >= candidates[j].created_at

\* A read with both filters returned the conversation's record, which belongs
\* to another user, and not the record of the user that was named.
C18_Witness ==
    /\ op.name = "get_conversation_history"
    /\ op.args.conversation_id = "c1"
    /\ op.args.user_id = "u1"
    /\ op.args.fault = "none"
    /\ Len(op.result) = 1
    /\ Len(op.result[1]) = 1
    /\ op.result[1][1].user_id = "anonymous"
    /\ \E i \in 1..Len(store) : store[i].user_id = "u1"

-----------------------------------------------------------------------------
(* Claims about the vector store, under IndexSpec. *)

\* The k of the last search.
K == IF op.args.n_results = <<>> THEN TOP_K_RESULTS ELSE op.args.n_results[1]

(* C20 - search never raises: on an empty index it returns an empty list, on
   any per-call failure (query embedding or index query) it returns an empty
   list, and otherwise it returns at most k candidates ordered by
   non-increasing similarity_score, where each similarity_score is
   1 - distance of that candidate. *)
C20_SearchNeverRaises ==
    op.name = "search" =>
        /\ op.exc = NoExc
        /\ Len(op.result) = 1
        /\ index = <<>> => op.result[1] = <<>>
        /\ op.args.fault # "none" => op.result[1] = <<>>
        /\ LET results == op.result[1]
           IN  /\ Len(results) <= K
               /\ \A i \in 1..(Len(results) - 1) :
                     results[i].similarity_score >= results[i + 1].similarity_score
               /\ \E f \in [1..Len(results) -> 1..Len(index)] :
                     /\ \A i, j \in 1..Len(results) : i # j => f[i] # f[j]
                     /\ \A i \in 1..Len(results) :
                           /\ results[i].content = index[f[i]].document
                           /\ results[i].similarity_score =
                                 Scale - DistanceTo(op.args.query,
                                                    index[f[i]].document)

\* A search with k = 1 on an index of two entries returned the nearer one.
C20_Witness ==
    /\ op.name = "search"
    /\ op.args.fault = "none"
    /\ op.args.n_results = <<1>>
    /\ Len(index) = 2
    /\ Len(op.result) = 1
    /\ Len(op.result[1]) = 1
    /\ op.result[1][1].similarity_score = Scale - 183
    /\ \E i \in 1..Len(index) : index[i].document = "hostels"

\* The step is an add_documents call that did not fail.
Added ==
    /\ op'.name = "add_documents"
    /\ op'.args.fault = "none"
    /\ op' # op

(* C21 - the index tolerates re-indexing: after add_documents(A) followed by
   add_documents(B), every passage of A and of B is stored in the index (the
   stored count is |A| + |B|) and each is retrievable by search, for any two
   batches. *)
C21_ReindexKeepsAll ==
    [][Added =>
          LET documents == op'.args.documents
          IN  /\ Len(index') = Len(index) + Len(documents)
              /\ \A i \in 1..Len(index) : index'[i] = index[i]
              /\ \A i \in 1..Len(documents) :
                    \A results \in search(index', documents[i].text,
                                          <<Len(index')>>, "none").results :
                        \E j \in 1..Len(results) :
                            results[j].content = documents[i].text]_vars

(* C22 - round trip: for any passage p indexed by any add_documents call
   (first or later batch), with an embedding function that maps equal text to
   distance 0, search(p.text, k) returns p among its results with
   similarity_score >= the threshold, provided fewer than k other passages
   are at distance 0. *)
C22_RoundTrip ==
    [][Added =>
          LET documents == op'.args.documents
          IN  \A i \in 1..Len(documents) :
                  (Cardinality({j \in 1..Len(index') :
                       /\ index'[j].document # documents[i].text
                       /\ DistanceTo(documents[i].text, index'[j].document) = 0})
                     < TOP_K_RESULTS) =>
                  \A results \in search(index', documents[i].text, <<>>,
                                        "none").results :
                      \E j \in 1..Len(results) :
                          /\ results[j].content = documents[i].text
                          /\ results[j].metadata = documents[i].metadata
                          /\ results[j].similarity_score >= SIMILARITY_THRESHOLD]_vars

-----------------------------------------------------------------------------
(* Claims about generation and context assembly, under ContextSpec. *)

(* C23 - the generator's grounded flag (sources_used) is true if and only if
   the context it was given is non-empty, for every call: successful or
   failed. *)
C23_GroundedIffContext ==
    op.name = "generate_response" =>
        op.result[1].sources_used = (op.args.context # <<>>)

\* C23 as it holds: sources_used is true if and only if the call succeeded
\* and the context it was given is non-empty; a failed call reports false
\* whatever the context.
C23_GroundedIffContextAndSuccess ==
    op.name = "generate_response" =>
        /\ (op.result[1].error = None) = op.args.llm_ok
        /\ op.result[1].sources_used =
              (op.args.context # <<>> /\ op.result[1].error = None)

\* A failed call with a context of two blocks reported sources_used false.
C23_Witness ==
    /\ op.name = "generate_response"
    /\ ~op.args.llm_ok
    /\ Len(op.args.context) = 3
    /\ op.result[1].error = LLM_ERROR
    /\ ~op.result[1].sources_used

\* The k-th candidate of docs at or above tau.
KthKept(docs, tau, k) ==
    docs[CHOOSE i \in Kept(docs, tau) :
            Cardinality({j \in Kept(docs, tau) : j < i}) = k - 1]

(* C24 - the assembled context has exactly one labelled block per filtered
   passage, block i (numbered from 1) holding the source name and content of
   the i-th filtered passage in ranking order, consecutive blocks joined by
   the fixed delimiter; no passage below the threshold appears in the context,
   and a passage without a source in its metadata is labelled Unknown. *)
C24_ContextBlocks ==
    op.name = "_prepare_context" =>
        LET docs == op.args.retrieved_docs
            tau == op.args.threshold
            context == op.result[1]
            n == Cardinality(Kept(docs, tau))
        IN  /\ Len(context) = IF n = 0 THEN 0 ELSE 2 * n - 1
            /\ \A k \in 1..n :
                  LET doc == KthKept(docs, tau, k)
                      block == context[2 * k - 1]
                  IN  /\ DOMAIN block = {"number", "source", "content"}
                      /\ block.number = k
                      /\ block.content = doc.content
                      /\ block.source = IF doc.metadata.source = MissingKey
                                        THEN "Unknown" ELSE doc.metadata.source
            /\ \A k \in 1..(n - 1) : context[2 * k] = DELIMITER
            /\ \A i \in 1..Len(docs) :
                  docs[i].similarity_score < tau =>
                      \A k \in 1..n : context[2 * k - 1].content # docs[i].content

\* Two passages passed the filter, the second without a source: two
\* numbered blocks with the delimiter between them.
C24_Witness ==
    /\ op.name = "_prepare_context"
    /\ Len(op.result[1]) = 3
    /\ op.result[1][1].number = 1
    /\ op.result[1][1].source = "fees.pdf"
    /\ op.result[1][2] = DELIMITER
    /\ op.result[1][3].number = 2
    /\ op.result[1][3].source = "Unknown"

-----------------------------------------------------------------------------
(* Further claims about process_query, under Spec. *)

\* The terminal states the returned result is the result of.
TerminalStates ==
    {t \in {"NoEvidence", "LowConfidence", "Answered", "PipelineError"} :
        CASE t = "NoEvidence" -> Result.answer = ANSWER_NO_EVIDENCE
          [] t = "LowConfidence" -> Result.answer = ANSWER_LOW_CONFIDENCE
          [] t = "Answered" -> Result.answer \in {ANSWER_LLM, ANSWER_LLM_APOLOGY}
          [] OTHER -> IsPipelineError(Result)}

(* C27 - every process_query invocation ends in exactly one of the four
   terminal states, and the generator is called at most once per invocation
   and only after the filter produced a non-empty list: it is never called in
   a run that ends in NoEvidence or LowConfidence, and never called with an
   empty context. *)
C27_OneTerminalState ==
    (outcome # "none") =>
        /\ Returned
        /\ Cardinality(TerminalStates) = 1
        /\ gen_calls \in {0, 1}
        /\ gen_calls = 1 =>
              /\ Kept(call.retrieved_docs, SIMILARITY_THRESHOLD) # {}
              /\ _prepare_context(filtered_docs(call.retrieved_docs,
                                                SIMILARITY_THRESHOLD)) # <<>>
        /\ (TerminalStates \cap {"NoEvidence", "LowConfidence"} # {}) =>
              gen_calls = 0
        /\ "Answered" \in TerminalStates => gen_calls = 1

\* A run ended in LowConfidence without a call of the generator.
C27_Witness ==
    /\ Returned
    /\ TerminalStates = {"LowConfidence"}
    /\ gen_calls = 0
    /\ Len(call.retrieved_docs) = 2

(* C28 - the returned confidence is consistent with the gate: every Answered
   result has confidence >= threshold, every LowConfidence result has
   confidence < threshold, and NoEvidence and PipelineError results have
   confidence exactly 0. *)
C28_ConfidenceMatchesGate ==
    Returned =>
        /\ "Answered" \in TerminalStates =>
              Result.confidence.num >= SIMILARITY_THRESHOLD * Result.confidence.den
        /\ "LowConfidence" \in TerminalStates =>
              Result.confidence.num < SIMILARITY_THRESHOLD * Result.confidence.den
        /\ (TerminalStates \cap {"NoEvidence", "PipelineError"} # {}) =>
              Result.confidence.num = 0

\* An Answered result whose confidence is the mean of two different scores.
C28_Witness ==
    /\ Returned
    /\ TerminalStates = {"Answered"}
    /\ Len(Result.sources) = 2
    /\ Result.sources[1].similarity_score # Result.sources[2].similarity_score
    /\ Result.confidence.num > SIMILARITY_THRESHOLD * Result.confidence.den

(* C29 - the sources_used list of a persisted record has one
   {source, similarity} entry per element of the returned QueryResult.sources,
   in the same order and with the same similarity values: the filtered
   candidates for Answered, the complete unfiltered candidates for
   LowConfidence, the empty list for NoEvidence; reading the record back
   through get_conversation_history yields that same list. *)
C29_SourcesPersisted ==
    (Returned /\ wrote = 1) =>
        LET expected ==
                IF "Answered" \in TerminalStates
                THEN filtered_docs(call.retrieved_docs, SIMILARITY_THRESHOLD)
                ELSE IF "LowConfidence" \in TerminalStates
                THEN call.retrieved_docs
                ELSE <<>>
            IsEntries(list) ==
                /\ Len(list) = Len(expected)
                /\ \A i \in 1..Len(expected) :
                      /\ DOMAIN list[i] = {"source", "similarity"}
                      /\ list[i].similarity = expected[i].similarity_score
                      /\ list[i].source =
                            IF expected[i].metadata.source = MissingKey
                            THEN "Unknown" ELSE expected[i].metadata.source
        IN  /\ Result.sources = expected
            /\ store[Len(store)].conversation_id = call.conversation_id
            /\ IsEntries(json_loads(store[Len(store)].sources_used))
            /\ \A listing \in Lookup(call.conversation_id) :
                  /\ Len(listing) = 1
                  /\ IsEntries(listing[1].sources_used)

\* A LowConfidence run saved its record with the two unfiltered candidates.
C29_Witness ==
    /\ Returned
    /\ wrote = 1
    /\ TerminalStates = {"LowConfidence"}
    /\ Len(json_loads(store[Len(store)].sources_used)) = 2

(* C30 - a history read never returns another user's records unless a
   matching conversation_id is given: for every call of
   get_conversation_history with conversation_id absent, every returned
   record has user_id equal to the requested user_id, including the call
   where user_id is also absent or empty. *)
C30_NoOtherUsersRecords ==
    (/\ op.name = "get_conversation_history"
     /\ op.exc = NoExc
     /\ ~Truthy(op.args.conversation_id)) =>
        \A i \in 1..Len(op.result[1]) :
            op.result[1][i].user_id = op.args.user_id

-----------------------------------------------------------------------------
(* Claims about concurrent invocations, under ConcurrentSpec. *)

\* What the invocation of p returns when it runs alone: the whole method,
\* against the table as it was at the call, with the same collaborator
\* outcomes.
Alone(p) ==
    process_query(pipeline,
                  [rows |-> proc[p].rows0, next_id |-> next_id,
                   SessionLocal |-> SessionLocal(pipeline)],
                  "fees", proc[p].conversation_id, "anonymous",
                  proc[p].retrieved_docs, proc[p].llm_ok, proc[p].fault,
                  clock).result

(* C25 - concurrent process_query invocations are independent: under every
   interleaving of two invocations running against the same index contents,
   each returns the same QueryResult it would return if it ran alone, and the
   orchestrator object's own fields are never written during a query. *)
C25_Independent ==
    /\ [](\A p \in Procs : proc[p].pc = "done" => proc[p].ret = Alone(p))
    /\ [][pipeline' = pipeline]_vars

\* Both invocations were called under the same id before either saved, both
\* were answered, and one of the two saves was rejected.
C25_Witness ==
    /\ HistoryOn
    /\ \A p \in Procs :
          /\ proc[p].pc = "done"
          /\ proc[p].conversation_id = "c1"
          /\ proc[p].rows0 = <<>>
          /\ proc[p].fault = "none"
          /\ proc[p].ret[1].answer = ANSWER_LLM
    /\ Len(store) = 1

(* C26 - when two process_query invocations that supply no conversation_id
   run concurrently (or within the same clock second) with history enabled
   and both reach a non-error terminal state, the history store ends with two
   records having two distinct synthesized conversation_ids, under every
   interleaving. *)
C26_TwoSynthesizedIds ==
    (/\ HistoryOn
     /\ \A p \in Procs :
           /\ proc[p].pc = "done"
           /\ proc[p].conversation_id = None
           /\ proc[p].response # <<>>
           /\ proc[p].fault = "none") =>
        /\ Len(store) = 2
        /\ store[1].conversation_id # store[2].conversation_id

====
